---- MODULE Spec2Model ----
(***************************************************************************)
(* Model of library/aarch64_vm.py: the Aarch64Client HTTP client and the    *)
(* Ansible command handler main().  One run of main() is one invocation;   *)
(* the HTTP transport and the API server are the environment, whose        *)
(* answers are drawn from bounded sets.                                    *)
(***************************************************************************)
EXTENDS Integers, Sequences, FiniteSets, TLC

VARIABLES
    pc,                \* position of main(): dispatch, create_vm, done
    params,            \* module.params
    client,            \* the Aarch64Client instance
    result,            \* the result dict of main()
    projects_request,  \* local of main(): response of client.projects()
    project,           \* local of main(): project found by the scan
    create_request,    \* local of main(): response of client.create_vm()
    delete_request,    \* local of main(): response of client.delete_vm()
    outcome,           \* how the invocation ended: exit_json, fail_json, uncaught
    calls,             \* HTTP requests sent by this invocation, in order
    received,          \* transport outcome of each of those requests
    invocation,        \* number of invocations started so far
    api_vms,           \* environment: hostnames of the VMs the API has created
    ok_runs,           \* history: finished invocations the API answered with success throughout
    changed_runs,      \* history: finished invocations that reported changed = true
    client_ret,        \* client harness: outcome of the last client operation
    client_op          \* client harness: name of the last client operation

vars == <<pc, params, client, result, projects_request, project, create_request,
          delete_request, outcome, calls, received, invocation, api_vms,
          ok_runs, changed_runs, client_ret, client_op>>

main_vars == <<pc, params, client, result, projects_request, project,
               create_request, delete_request, outcome, invocation, api_vms,
               ok_runs, changed_runs>>

(* ------------------------------ bounds --------------------------------- *)

MaxInvocations == 2
MaxProjects == 2

(* --------------------------- input domains ----------------------------- *)

HTTP_OK == 200

StatusCodes == {200, 201, 404}
Messages == {"VM queued", "Unauthorized"}
ProjectIds == {"p1", "p2"}
ProjectNames == {"alpha", "beta"}
VmIds == {"v1", "v2"}
Hostnames == {"h1", "h2"}
ApiKeys == {"k1"}

EmptyDict == [k \in {} |-> k]
PyNone == [py |-> "None"]

ProjectRecords == [_id : ProjectIds, name : ProjectNames]
ProjectLists == UNION {[1..n -> ProjectRecords] : n \in 0..MaxProjects}
VmRecords == [_id : VmIds]

Envelopes(Data) == [meta : [success : BOOLEAN, message : Messages], data : Data]

\* a response body: text that is not JSON, the JSON object {}, or an envelope
Bodies(Data) ==
    {[valid |-> FALSE], [valid |-> TRUE, value |-> EmptyDict]}
        \cup {[valid |-> TRUE, value |-> e] : e \in Envelopes(Data)}

ConnectionError == [kind |-> "ConnectionError"]

\* what requests.request can produce: an exception or a Response
Transport(Data) ==
    {ConnectionError}
        \cup [kind : {"Response"}, status_code : StatusCodes, body : Bodies(Data)]

ParamSets ==
    [api_key : ApiKeys, id : VmIds, hostname : Hostnames, project : ProjectIds,
     plan : {"v1.small"}, os : {"debian"}, pop : {"dfw"},
     state : {"present", "absent"}]

(* ---------------------------- Aarch64Client ---------------------------- *)

server == "https://console.aarch64.com/api"

Aarch64Client(api_key) == [api_key |-> api_key, server |-> server]

\* the request that _req hands to requests.request
Request(self, method, endpoint, body) ==
    [method |-> method, url |-> self.server \o endpoint, json |-> body,
     headers |-> [Authorization |-> self.api_key]]

StatusOk_2xx(resp) == resp.status_code \in 200..299
StatusOk(resp) == resp.status_code = HTTP_OK

ApiSuccess_Ignored(doc) == TRUE
ApiSuccess(doc) == doc.meta.success

ApiException(message) == [raised |-> "ApiException", message |-> message]

\* _req after the request was sent: the exception raised or the response returned
_req(resp) ==
    IF resp.kind = "ConnectionError" THEN [raised |-> "ConnectionError"]
    ELSE IF ~StatusOk(resp)
        THEN ApiException("API returned HTTP " \o ToString(resp.status_code))
    ELSE IF ~resp.body.valid THEN [raised |-> "JSONDecodeError"]
    ELSE IF "meta" \notin DOMAIN resp.body.value THEN [raised |-> "KeyError"]
    ELSE IF ~ApiSuccess(resp.body.value)
        THEN ApiException(resp.body.value.meta.message)
    ELSE [raised |-> "None", resp |-> resp]

projects(self) == Request(self, "GET", "/projects", PyNone)

create_project(self, name) == Request(self, "POST", "/project", [name |-> name])

add_user(self, project_id, email) ==
    Request(self, "POST", "/project/adduser",
            [project |-> project_id, email |-> email])

create_vm(self, hostname, pop, project_id, plan, os) ==
    Request(self, "POST", "/vms/create",
            [hostname |-> hostname, pop |-> pop, project |-> project_id,
             plan |-> plan, os |-> os])

delete_vm_WrongKey(self, vm) == Request(self, "DELETE", "/vms/delete", [id |-> vm])
delete_vm(self, vm) == Request(self, "DELETE", "/vms/delete", [vm |-> vm])

get_system(self) == Request(self, "GET", "/system", PyNone)

\* resp.json() of a response that _req returned
Json(resp) == resp.body.value

(* -------------------------------- main() ------------------------------- *)

InitialResult == [changed |-> FALSE]

\* the loop of main() over projects_request.json()["data"]: every element is
\* visited, and a later match overwrites an earlier one
RECURSIVE ScanFrom(_, _, _, _)
ScanFrom(data, wanted, i, found) ==
    IF i > Len(data) THEN found
    ELSE ScanFrom(data, wanted, i + 1,
                  IF data[i]._id = wanted THEN data[i] ELSE found)

FindProject_FirstOnly(data, wanted) ==
    IF Len(data) > 0 /\ data[1]._id = wanted THEN data[1] ELSE EmptyDict
FindProject_TakeLast(data, wanted) ==
    IF Len(data) > 0 THEN data[Len(data)] ELSE EmptyDict
FindProject(data, wanted) == ScanFrom(data, wanted, 1, EmptyDict)

Range(s) == {s[i] : i \in DOMAIN s}

ProjectMissing_Never(p) == FALSE
ProjectMissing_OrHostExists(p) == p = EmptyDict \/ params.hostname \in Range(api_vms)
ProjectMissing(p) == p = EmptyDict

GetProjectsFailMsg(e) == "Unable to get projects: " \o e.message
FindProjectFailMsg(id) == "Unable to find project with id " \o id
CreateFailMsg_WrongPrefix(e) == "Unable to get projects: " \o e.message
CreateFailMsg(e) == "Unable to create VM: " \o e.message
DeleteFailMsg(e) == "Unable to delete VM: " \o e.message

CreateResult_WholeBody(res, resp) ==
    ("vm" :> Json(resp)) @@ ("message" :> Json(resp).meta.message)
        @@ ("changed" :> TRUE) @@ res
CreateResult(res, resp) ==
    ("vm" :> Json(resp).data) @@ ("message" :> Json(resp).meta.message)
        @@ ("changed" :> TRUE) @@ res

DeleteResult(res, resp) ==
    ("message" :> Json(resp).meta.message) @@ ("changed" :> TRUE) @@ res

\* the three ways an invocation ends
Running == [kind |-> "running"]
ExitJson(res) == [kind |-> "exit_json", doc |-> res]
FailJson(msg) == [kind |-> "fail_json", msg |-> msg]
Uncaught(exc) == [kind |-> "uncaught", exc |-> exc]

Unset == [kind |-> "unset"]

\* environment: the API carried a request out exactly when it answered 200
\* with the success flag set
ApiSucceeded(resp) ==
    /\ resp.kind = "Response"
    /\ resp.status_code = 200
    /\ resp.body.valid
    /\ "meta" \in DOMAIN resp.body.value
    /\ resp.body.value.meta.success

\* environment: the project list the API sent contains the project id
ApiListed(resp, id) ==
    \E i \in DOMAIN resp.body.value.data : resp.body.value.data[i]._id = id

\* history: the API answered every request of the invocation with success and,
\* for state = present, listed the requested project
RunOk(p, recv) ==
    /\ Len(recv) > 0
    /\ \A i \in DOMAIN recv : ApiSucceeded(recv[i])
    /\ p.state = "present" => ApiListed(recv[1], p.project)

\* history: bookkeeping at the end of an invocation
History ==
    /\ ok_runs' = IF pc' = "done" /\ RunOk(params, received')
                   THEN ok_runs + 1 ELSE ok_runs
    /\ changed_runs' = IF outcome'.kind = "exit_json" /\ outcome'.doc.changed
                        THEN changed_runs + 1 ELSE changed_runs

\* lines 144-158: arguments parsed, result and client constructed
Enter(p) ==
    /\ params' = p
    /\ result' = InitialResult
    /\ client' = Aarch64Client(p.api_key)
    /\ projects_request' = Unset
    /\ project' = EmptyDict
    /\ create_request' = Unset
    /\ delete_request' = Unset
    /\ outcome' = Running
    /\ calls' = <<>>
    /\ received' = <<>>
    /\ pc' = "dispatch"

Init ==
    /\ \E p \in ParamSets :
        /\ params = p
        /\ client = Aarch64Client(p.api_key)
    /\ result = InitialResult
    /\ projects_request = Unset
    /\ project = EmptyDict
    /\ create_request = Unset
    /\ delete_request = Unset
    /\ outcome = Running
    /\ calls = <<>>
    /\ received = <<>>
    /\ pc = "dispatch"
    /\ invocation = 1
    /\ api_vms = <<>>
    /\ ok_runs = 0
    /\ changed_runs = 0
    /\ client_ret = Unset
    /\ client_op = "none"

\* a further run of the module: a new process, nothing kept from the last one
Start(p) ==
    /\ pc = "done"
    /\ invocation < MaxInvocations
    /\ invocation' = invocation + 1
    /\ Enter(p)
    /\ UNCHANGED <<api_vms, ok_runs, changed_runs, client_ret, client_op>>

\* lines 160-171: client.projects(), then the scan for the requested project
Present_Projects(resp) ==
    /\ pc = "dispatch"
    /\ params.state = "present"
    /\ calls' = Append(calls, projects(client))
    /\ received' = Append(received, resp)
    /\ LET r == _req(resp) IN
        IF r.raised = "ApiException" THEN
            /\ outcome' = FailJson(GetProjectsFailMsg(r))
            /\ pc' = "done"
            /\ UNCHANGED <<projects_request, project>>
        ELSE IF r.raised # "None" THEN
            /\ outcome' = Uncaught(r.raised)
            /\ pc' = "done"
            /\ UNCHANGED <<projects_request, project>>
        ELSE
            /\ projects_request' = r.resp
            /\ project' = FindProject(Json(r.resp).data, params.project)
            /\ IF ProjectMissing(project')
                THEN /\ outcome' = FailJson(FindProjectFailMsg(params.project))
                     /\ pc' = "done"
                ELSE /\ outcome' = outcome
                     /\ pc' = "create_vm"
    /\ History
    /\ UNCHANGED <<params, client, result, create_request, delete_request,
                   invocation, api_vms, client_ret, client_op>>

\* lines 173-184 and 194: client.create_vm(), then the result document
Present_CreateVm(resp) ==
    /\ pc = "create_vm"
    /\ calls' = Append(calls, create_vm(client, params.hostname, params.pop,
                                        params.project, params.plan, params.os))
    /\ received' = Append(received, resp)
    /\ api_vms' = IF ApiSucceeded(resp) THEN Append(api_vms, params.hostname)
                  ELSE api_vms
    /\ pc' = "done"
    /\ LET r == _req(resp) IN
        IF r.raised = "ApiException" THEN
            /\ outcome' = FailJson(CreateFailMsg(r))
            /\ UNCHANGED <<create_request, result>>
        ELSE IF r.raised # "None" THEN
            /\ outcome' = Uncaught(r.raised)
            /\ UNCHANGED <<create_request, result>>
        ELSE
            /\ create_request' = r.resp
            /\ result' = CreateResult(result, r.resp)
            /\ outcome' = ExitJson(result')
    /\ History
    /\ UNCHANGED <<params, client, projects_request, project, delete_request,
                   invocation, client_ret, client_op>>

\* lines 185-194: client.delete_vm(), then the result document
Absent_DeleteVm(resp) ==
    /\ pc = "dispatch"
    /\ params.state = "absent"
    /\ calls' = Append(calls, delete_vm(client, params.id))
    /\ received' = Append(received, resp)
    /\ pc' = "done"
    /\ LET r == _req(resp) IN
        IF r.raised = "ApiException" THEN
            /\ outcome' = FailJson(DeleteFailMsg(r))
            /\ UNCHANGED <<delete_request, result>>
        ELSE IF r.raised # "None" THEN
            /\ outcome' = Uncaught(r.raised)
            /\ UNCHANGED <<delete_request, result>>
        ELSE
            /\ delete_request' = r.resp
            /\ result' = DeleteResult(result, r.resp)
            /\ outcome' = ExitJson(result')
    /\ History
    /\ UNCHANGED <<params, client, projects_request, project, create_request,
                   invocation, api_vms, client_ret, client_op>>

Next ==
    \/ \E p \in ParamSets : Start(p)
    \/ \E resp \in Transport(ProjectLists) : Present_Projects(resp)
    \/ \E resp \in Transport(VmRecords) : Present_CreateVm(resp)
    \/ \E resp \in Transport(VmRecords) : Absent_DeleteVm(resp)

Spec == Init /\ [][Next]_vars

\* the same task run again with identical parameters
Rerun == Start(params)

NextRepeat ==
    \/ Rerun
    \/ \E resp \in Transport(ProjectLists) : Present_Projects(resp)
    \/ \E resp \in Transport(VmRecords) : Present_CreateVm(resp)
    \/ \E resp \in Transport(VmRecords) : Absent_DeleteVm(resp)

RepeatSpec == Init /\ [][NextRepeat]_vars

(* ----------------- the client operations on their own ------------------ *)

Names == {"web"}
Emails == {"a@example.org"}

\* one client operation on a fresh client: the request goes out, _req raises
\* or returns
ClientCall(op, request, resp) ==
    /\ client_op = "none"
    /\ client_op' = op
    /\ calls' = <<request>>
    /\ received' = <<resp>>
    /\ client_ret' = _req(resp)
    /\ UNCHANGED main_vars

Client_projects(resp) == ClientCall("projects", projects(client), resp)

Client_create_project(name, resp) ==
    ClientCall("create_project", create_project(client, name), resp)

Client_add_user(project_id, email, resp) ==
    ClientCall("add_user", add_user(client, project_id, email), resp)

Client_create_vm(hostname, project_id, resp) ==
    ClientCall("create_vm",
               create_vm(client, hostname, "dfw", project_id, "v1.small", "debian"),
               resp)

Client_delete_vm(vm, resp) == ClientCall("delete_vm", delete_vm(client, vm), resp)

Client_get_system(resp) == ClientCall("get_system", get_system(client), resp)

NextClient ==
    \/ \E resp \in Transport(ProjectLists) : Client_projects(resp)
    \/ \E name \in Names, resp \in Transport(ProjectRecords) :
            Client_create_project(name, resp)
    \/ \E id \in ProjectIds, email \in Emails, resp \in Transport(VmRecords) :
            Client_add_user(id, email, resp)
    \/ \E h \in Hostnames, id \in ProjectIds, resp \in Transport(VmRecords) :
            Client_create_vm(h, id, resp)
    \/ \E vm \in VmIds, resp \in Transport(VmRecords) : Client_delete_vm(vm, resp)
    \/ \E resp \in Transport(VmRecords) : Client_get_system(resp)

ClientSpec == Init /\ [][NextClient]_vars

(* ======================= properties of the code ======================== *)

\* the text of a status code, written out
CodeText(c) ==
    CASE c = 200 -> "200" [] c = 201 -> "201" [] c = 404 -> "404"

\* the answer was 200 with a JSON envelope whose success flag is true
Succeeded(resp) ==
    /\ resp.kind = "Response"
    /\ resp.status_code = 200
    /\ resp.body.valid
    /\ "meta" \in DOMAIN resp.body.value
    /\ resp.body.value.meta.success = TRUE

\* the answer makes the client raise ApiException: a status other than 200,
\* or 200 with a JSON envelope whose success flag is false
ClientError(resp) ==
    /\ resp.kind = "Response"
    /\ \/ resp.status_code # 200
       \/ /\ resp.body.valid
          /\ "meta" \in DOMAIN resp.body.value
          /\ resp.body.value.meta.success = FALSE

\* the message of that ApiException
Detail(resp) ==
    IF resp.status_code # 200
    THEN "API returned HTTP " \o CodeText(resp.status_code)
    ELSE resp.body.value.meta.message

Data(resp) == resp.body.value.data
Meta(resp) == resp.body.value.meta

Listed(resp, id) == \E i \in DOMAIN Data(resp) : Data(resp)[i]._id = id

IsList(call) ==
    call.method = "GET" /\ call.url = "https://console.aarch64.com/api/projects"
IsCreate(call) ==
    call.method = "POST" /\ call.url = "https://console.aarch64.com/api/vms/create"
IsDelete(call) ==
    call.method = "DELETE" /\ call.url = "https://console.aarch64.com/api/vms/delete"

Count(P(_)) == Cardinality({i \in DOMAIN calls : P(calls[i])})

Present == params.state = "present"
Absent == params.state = "absent"

\* list-projects was answered with success
ListSucceeded == Present /\ Len(received) >= 1 /\ Succeeded(received[1])

(* ------------------------------- C1 ------------------------------------ *)

\* C1: state = present, list-projects succeeds and no returned project has
\* the requested _id (the empty list included): no create-VM call is issued,
\* the invocation ends with fail_json "Unable to find project with id <id>",
\* and changed is not true.
C1_ProjectNotListed ==
    (ListSucceeded /\ ~Listed(received[1], params.project)) =>
        /\ pc = "done"
        /\ outcome = [kind |-> "fail_json",
                      msg |-> "Unable to find project with id " \o params.project]
        /\ Count(IsCreate) = 0
        /\ Len(calls) = 1
        /\ result = [changed |-> FALSE]

C1_Witness ==
    /\ ListSucceeded
    /\ Len(Data(received[1])) = MaxProjects
    /\ ~Listed(received[1], params.project)
    /\ outcome.kind = "fail_json"

(* ------------------------------- C2 ------------------------------------ *)

\* C2: state = present, the requested project is listed and create-VM
\* succeeds: the result document has changed = true, vm equal to the data of
\* the create-VM response, and message equal to its meta.message.
C2_CreatedResult ==
    (/\ ListSucceeded
     /\ Listed(received[1], params.project)
     /\ Len(received) = 2
     /\ Succeeded(received[2])) =>
        /\ pc = "done"
        /\ outcome.kind = "exit_json"
        /\ outcome.doc = [changed |-> TRUE,
                          vm |-> Data(received[2]),
                          message |-> Meta(received[2]).message]

C2_Witness ==
    /\ ListSucceeded
    /\ Len(received) = 2
    /\ Succeeded(received[2])
    /\ outcome.kind = "exit_json"
    /\ outcome.doc.vm = [_id |-> "v2"]

(* ------------------------------- C3 ------------------------------------ *)

\* C3: state = absent: exactly one delete-VM call with the supplied VM id is
\* issued and no list-projects or create-VM call; if the delete call
\* succeeds the result has changed = true, the API's meta.message as
\* message, and no vm field.
C3_AbsentDeletes ==
    Absent =>
        /\ Count(IsList) = 0 /\ Count(IsCreate) = 0
        /\ pc \in {"dispatch", "done"}
        /\ pc = "dispatch" => calls = <<>>
        /\ pc = "done" =>
            /\ calls = <<[method |-> "DELETE",
                          url |-> "https://console.aarch64.com/api/vms/delete",
                          json |-> [vm |-> params.id],
                          headers |-> [Authorization |-> params.api_key]]>>
            /\ Succeeded(received[1]) =>
                /\ outcome.kind = "exit_json"
                /\ outcome.doc = [changed |-> TRUE,
                                  message |-> Meta(received[1]).message]
                /\ "vm" \notin DOMAIN outcome.doc

C3_Witness ==
    /\ Absent
    /\ pc = "done"
    /\ Succeeded(received[1])
    /\ outcome.kind = "exit_json"
    /\ calls[1].json.vm = "v2"

(* ------------------------------- C4 ------------------------------------ *)

\* C4: whatever the client operation, a status code other than 200 makes it
\* raise ApiException with a message that carries the status code, whatever
\* the body is (success flag true or false, or not JSON at all).
C4_StatusChecked ==
    (/\ client_op # "none"
     /\ received[1].kind = "Response"
     /\ received[1].status_code # 200) =>
        client_ret = [raised |-> "ApiException",
                      message |-> "API returned HTTP "
                                      \o CodeText(received[1].status_code)]

C4_Witness ==
    /\ client_op = "get_system"
    /\ received[1].kind = "Response"
    /\ received[1].status_code = 201
    /\ Succeeded([received[1] EXCEPT !.status_code = 200])
    /\ client_ret.raised = "ApiException"

C4_WitnessNotJson ==
    /\ client_op = "add_user"
    /\ received[1].kind = "Response"
    /\ received[1].status_code = 404
    /\ ~received[1].body.valid
    /\ client_ret.raised = "ApiException"

(* ------------------------------- C5 ------------------------------------ *)

\* C5: whatever the client operation, status 200 with meta.success = false
\* raises ApiException whose message is meta.message, and status 200 with
\* meta.success = true returns the response without raising.
C5_SuccessFlag ==
    (/\ client_op # "none"
     /\ received[1].kind = "Response"
     /\ received[1].status_code = 200
     /\ received[1].body.valid
     /\ "meta" \in DOMAIN received[1].body.value) =>
        IF Meta(received[1]).success
        THEN client_ret = [raised |-> "None", resp |-> received[1]]
        ELSE client_ret = [raised |-> "ApiException",
                           message |-> Meta(received[1]).message]

C5_Witness ==
    /\ client_op = "create_project"
    /\ received[1].kind = "Response"
    /\ received[1].status_code = 200
    /\ received[1].body.valid
    /\ "meta" \in DOMAIN received[1].body.value
    /\ ~Meta(received[1]).success
    /\ client_ret.raised = "ApiException"
    /\ client_ret.message = "Unauthorized"

(* ------------------------------- C6 ------------------------------------ *)

\* C6 as stated: every invocation (here: every one that ended in exit_json or
\* fail_json) has issued exactly one state-mutating call (create-VM or
\* delete-VM), in the present path after exactly one list-projects call, and
\* at most two calls in all.
C6_ExactlyOneMutation ==
    (pc = "done" /\ outcome.kind \in {"exit_json", "fail_json"}) =>
        /\ Count(IsCreate) + Count(IsDelete) = 1
        /\ Present => (Count(IsList) = 1 /\ IsList(calls[1]))
        /\ Len(calls) <= 2

\* C6 amended: an invocation issues at most one state-mutating call and at
\* most two calls in all; a finished absent invocation issued exactly one
\* delete-VM call and nothing else; a finished present invocation issued
\* exactly one list-projects call first, followed by exactly one create-VM
\* call when list-projects succeeded and listed the requested project, and
\* by no call otherwise.
C6_AtMostOneMutation ==
    /\ Count(IsCreate) + Count(IsDelete) <= 1
    /\ Len(calls) <= 2
    /\ \A i \in DOMAIN calls : IsCreate(calls[i]) => (i = 2 /\ IsList(calls[1]))
    /\ Count(IsList) <= 1
    /\ (pc = "done" /\ Absent) => (Len(calls) = 1 /\ IsDelete(calls[1]))
    /\ (pc = "done" /\ Present) =>
        /\ IsList(calls[1])
        /\ IF Succeeded(received[1]) /\ Listed(received[1], params.project)
           THEN Len(calls) = 2 /\ IsCreate(calls[2])
           ELSE Len(calls) = 1

C6_Witness ==
    /\ pc = "done"
    /\ Present
    /\ Len(calls) = 2
    /\ IsList(calls[1])
    /\ IsCreate(calls[2])

C6_WitnessNoMutation ==
    /\ pc = "done"
    /\ Present
    /\ Succeeded(received[1])
    /\ Len(calls) = 1
    /\ Count(IsCreate) + Count(IsDelete) = 0

(* ------------------------------- C7 ------------------------------------ *)

\* a call of the invocation failed: no response, a status other than 200, a
\* body that is not the JSON envelope, or the success flag false
SomeCallFailed == \E i \in DOMAIN received : ~Succeeded(received[i])

\* C7: every finished invocation ends in exactly one of exit_json and
\* fail_json, and when one of its calls failed in any way (transport failure,
\* status other than 200, success flag false, body that is not the JSON
\* envelope) it ends in fail_json with a message of the command handler.
C7_EveryFailureReported ==
    pc = "done" =>
        /\ outcome.kind \in {"exit_json", "fail_json"}
        /\ SomeCallFailed => outcome.kind = "fail_json"

(* ------------------------------- C8 ------------------------------------ *)

\* C8: a client error short-circuits the branch and is reported with the
\* prefix of the failed step followed by the error's message: "Unable to get
\* projects: " (and no create-VM call follows), "Unable to create VM: ",
\* "Unable to delete VM: "; an invocation that did not end in exit_json has no
\* changed = true and no vm field in its result.
C8_FailurePrefixes ==
    /\ (Present /\ Len(received) >= 1 /\ ClientError(received[1])) =>
        /\ pc = "done"
        /\ outcome = [kind |-> "fail_json",
                      msg |-> "Unable to get projects: " \o Detail(received[1])]
        /\ Len(calls) = 1
        /\ Count(IsCreate) = 0
    /\ (Present /\ Len(received) = 2 /\ ClientError(received[2])) =>
        /\ pc = "done"
        /\ outcome = [kind |-> "fail_json",
                      msg |-> "Unable to create VM: " \o Detail(received[2])]
    /\ (Absent /\ Len(received) >= 1 /\ ClientError(received[1])) =>
        /\ pc = "done"
        /\ outcome = [kind |-> "fail_json",
                      msg |-> "Unable to delete VM: " \o Detail(received[1])]
        /\ Len(calls) = 1
    /\ outcome.kind # "exit_json" => result = [changed |-> FALSE]

C8_Witness ==
    /\ Present
    /\ Len(received) = 2
    /\ received[2].kind = "Response"
    /\ received[2].status_code = 404
    /\ outcome = [kind |-> "fail_json",
                  msg |-> "Unable to create VM: API returned HTTP 404"]

C8_WitnessList ==
    /\ Present
    /\ Len(received) = 1
    /\ outcome = [kind |-> "fail_json",
                  msg |-> "Unable to get projects: Unauthorized"]

(* ------------------------------- C9 ------------------------------------ *)

\* linear search with early exit on the first match
RECURSIVE EarlyExitSearch(_, _, _)
EarlyExitSearch(data, wanted, i) ==
    IF i > Len(data) THEN EmptyDict
    ELSE IF data[i]._id = wanted THEN data[i]
    ELSE EarlyExitSearch(data, wanted, i + 1)

\* the orderings of a list
Orderings(data) ==
    {[i \in DOMAIN data |-> data[f[i]]] :
        f \in {g \in [DOMAIN data -> DOMAIN data] :
                  \A a, b \in DOMAIN data : a # b => g[a] # g[b]}}

\* C9: in a present invocation a create-VM call is issued exactly when
\* list-projects succeeded and some returned project has the requested _id;
\* the decision is the same for every ordering of the list and with repeated
\* ids, and agrees with an early-exit linear search; the create call carries
\* the requested project id with the supplied hostname, pop, plan and os.
C9_CreateIffListed ==
    Present =>
        /\ (pc = "create_vm" \/ Count(IsCreate) = 1) <=>
               (ListSucceeded /\ Listed(received[1], params.project))
        /\ pc = "done" =>
               (Count(IsCreate) = 1 <=>
                   (ListSucceeded /\ Listed(received[1], params.project)))
        /\ ListSucceeded =>
            /\ \A q \in Orderings(Data(received[1])) :
                   (FindProject(q, params.project) = EmptyDict)
                       <=> (project = EmptyDict)
            /\ (EarlyExitSearch(Data(received[1]), params.project, 1) = EmptyDict)
                   <=> (project = EmptyDict)
        /\ \A i \in DOMAIN calls : IsCreate(calls[i]) =>
               calls[i].json = [hostname |-> params.hostname, pop |-> params.pop,
                                project |-> params.project, plan |-> params.plan,
                                os |-> params.os]

C9_Witness ==
    /\ Present
    /\ pc = "done"
    /\ ListSucceeded
    /\ Len(Data(received[1])) = 2
    /\ Data(received[1])[1]._id # params.project
    /\ Data(received[1])[2]._id = params.project
    /\ Count(IsCreate) = 1

C9_WitnessRepeated ==
    /\ Present
    /\ pc = "done"
    /\ ListSucceeded
    /\ Len(Data(received[1])) = 2
    /\ Data(received[1])[1]._id = params.project
    /\ Data(received[1])[2]._id = params.project
    /\ Data(received[1])[1] # Data(received[1])[2]
    /\ project # EarlyExitSearch(Data(received[1]), params.project, 1)
    /\ Count(IsCreate) = 1

(* ------------------------------- C10 ----------------------------------- *)

\* C10: with the same present parameters run again and again against an API
\* that answers every call with success and lists the project, every
\* invocation starts from a fresh unchanged result, issues its own create-VM
\* call whether or not the API already created a VM with that hostname, and
\* reports changed = true: n invocations make n creations.
C10_NotIdempotent ==
    /\ pc = "dispatch" =>
        /\ result = [changed |-> FALSE]
        /\ calls = <<>>
        /\ project = EmptyDict
        /\ outcome = [kind |-> "running"]
    /\ (Present /\ pc = "done" /\ ok_runs = invocation) =>
        /\ Len(calls) = 2 /\ IsCreate(calls[2])
        /\ outcome.kind = "exit_json"
        /\ outcome.doc.changed = TRUE
        /\ changed_runs = invocation
        /\ api_vms = [i \in 1..invocation |-> params.hostname]

C10_Witness ==
    /\ Present
    /\ pc = "done"
    /\ invocation = MaxInvocations
    /\ ok_runs = invocation
    /\ api_vms = [i \in 1..MaxInvocations |-> params.hostname]
    /\ outcome.kind = "exit_json"
    /\ outcome.doc.changed = TRUE

====
